---- MODULE Spec2Model ----
(***************************************************************************)
(* Model of the bulk ingestion pipeline of what-to-read-next               *)
(* (src/etl/ingest.py): the per-line functions (parse_dump_line,           *)
(* is_quality_record, extract_authors, extract_publish_year,               *)
(* prepare_embedding_text) as operators, and main() as a state machine     *)
(* over the dump file, the pending batch, the counters and the books       *)
(* table, run one or more times against the same table.  The two lookup    *)
(* caches of the API (src/api/author_enrichment.py, cover_enrichment.py)   *)
(* are modelled on their own in SpecCache.                                 *)
(*                                                                         *)
(* Representation of Python values:                                        *)
(*   - a dict is a function whose DOMAIN is the set of keys present;       *)
(*   - a value on which the code tests isinstance(), or that may be None,  *)
(*     is a tagged record [tag |-> "str" | "int" | "dict" | "none", val];  *)
(*   - a string the code slices, joins or strips (title, subject, date)    *)
(*     is a sequence of one-character strings; a string the code only      *)
(*     compares or stores (ol_key, the type marker) is a TLA+ string;      *)
(*   - an author key "/authors/OL1A" is the sequence of its path segments. *)
(***************************************************************************)
EXTENDS Integers, Sequences, FiniteSets, TLC

\* ------------------------------------------------------------------ bounds
MaxLines  == 2      \* longest dump file generated from Lines; Scenarios adds longer ones
MaxBatch  == 2      \* largest BATCH_SIZE tried
MaxCap    == 2      \* largest MAX_RECORDS tried (0 = no limit)
MaxRuns   == 2      \* invocations of main() against the same table
MaxFaults == 1      \* encoder and insert failures injected over all runs
MaxMin    == 3      \* largest MIN_SUBJECTS tried in the predicate check
MaxSubjects == 22   \* longest subjects list given to prepare_embedding_text
MaxAuthors == 2     \* longest authors list given to extract_authors
MilestoneEvery == 2 \* the interval of the progress log, 10,000 at line 290, scaled to the files tried
MaxLookups == 3     \* calls of the two enrichment lookups in one process

\* ------------------------------------------------------- program constants
DEFAULT_MIN_SUBJECTS == 3
SUBJECT_LIMIT == 20
YEAR_CHARS == 4
DUMP_FIELDS == 5

None == "None"
WORK_TYPE == "/type/work"

\* ------------------------------------------------------ Python value helpers
PyStr(s) == [tag |-> "str", val |-> s]
PyInt(n) == [tag |-> "int", val |-> n]
PyDict(d) == [tag |-> "dict", val |-> d]
PyNone == [tag |-> "none", val |-> None]
\* an exception that leaves the function instead of a value
PyRaise(e) == [tag |-> "raise", val |-> e]

\* truth value of a tagged value (bool(v))
Truthy(v) ==
    CASE v.tag = "none" -> FALSE
      [] v.tag = "int" -> v.val # 0
      [] v.tag = "str" -> v.val # << >>
      [] v.tag = "dict" -> DOMAIN v.val # {}
EmptyDict == [x \in {} |-> None]

\* dict.get(key, default)
Get(d, k, default) == IF k \in DOMAIN d THEN d[k] ELSE default

Min2(a, b) == IF a < b THEN a ELSE b

\* the slice taken one element too long
PrefixOneMore(s, n) == SubSeq(s, 1, Min2(n + 1, Len(s)))

\* seq[:n]
Prefix(s, n) == SubSeq(s, 1, Min2(n, Len(s)))

\* sep.join(parts), on strings as character sequences
RECURSIVE Join(_, _)
Join(sep, parts) ==
    IF parts = << >> THEN << >>
    ELSE IF Len(parts) = 1 THEN parts[1]
    ELSE parts[1] \o sep \o Join(sep, Tail(parts))

\* str.strip(): leading and trailing whitespace removed
RECURSIVE LStrip(_)
LStrip(s) == IF s # << >> /\ s[1] = " " THEN LStrip(Tail(s)) ELSE s
RECURSIVE RStrip(_)
RStrip(s) ==
    IF s # << >> /\ s[Len(s)] = " " THEN RStrip(SubSeq(s, 1, Len(s) - 1)) ELSE s
Strip(s) == LStrip(RStrip(s))

DigitChars == {"0", "1", "2", "3", "4", "5", "6", "7", "8", "9"}
DigitVal(c) ==
    CASE c = "0" -> 0 [] c = "1" -> 1 [] c = "2" -> 2 [] c = "3" -> 3
      [] c = "4" -> 4 [] c = "5" -> 5 [] c = "6" -> 6 [] c = "7" -> 7
      [] c = "8" -> 8 [] c = "9" -> 9
DigitChar(n) ==
    CASE n = 0 -> "0" [] n = 1 -> "1" [] n = 2 -> "2" [] n = 3 -> "3"
      [] n = 4 -> "4" [] n = 5 -> "5" [] n = 6 -> "6" [] n = 7 -> "7"
      [] n = 8 -> "8" [] n = 9 -> "9"

\* str.isdigit(): non-empty and every character a digit
IsDigit(s) == s # << >> /\ \A i \in 1..Len(s) : s[i] \in DigitChars

\* int(s) for a string of digits
RECURSIVE IntOfDigits(_)
IntOfDigits(s) ==
    IF s = << >> THEN 0
    ELSE 10 * IntOfDigits(SubSeq(s, 1, Len(s) - 1)) + DigitVal(s[Len(s)])

\* str(n) for a non-negative int
RECURSIVE StrOfNat(_)
StrOfNat(n) ==
    IF n < 10 THEN <<DigitChar(n)>>
    ELSE StrOfNat(n \div 10) \o <<DigitChar(n % 10)>>

\* ------------------------------------------------------- is_quality_record
\* MIN_SUBJECTS is a module global read from the environment: a variable here.
VARIABLE MIN_SUBJECTS

\* the filter without its test of the type
is_quality_record_any_type(work) ==
    LET subjects == Get(work, "subjects", << >>)
    IN  /\ ~(subjects = << >> \/ Len(subjects) < MIN_SUBJECTS)
        /\ Get(work, "title", << >>) # << >>

is_quality_record(work) ==
    LET subjects == Get(work, "subjects", << >>)
        work_type == Get(work, "type", PyNone)
    IN  /\ ~(subjects = << >> \/ Len(subjects) < MIN_SUBJECTS)
        /\ Get(work, "title", << >>) # << >>
        /\ IF work_type.tag = "dict"
             THEN Get(work_type.val, "key", None) = WORK_TYPE
             ELSE work_type.tag = "str" /\ work_type.val = WORK_TYPE

\* --------------------------------------------------------- extract_authors
StartsWithAuthors(k) == Len(k) >= 2 /\ k[1] = "authors"

RECURSIVE extract_authors_from(_)
extract_authors_from(author_list) ==
    IF author_list = << >> THEN << >>
    ELSE LET author_entry == author_list[1]
             rest == extract_authors_from(Tail(author_list))
         IN  IF author_entry.tag = "dict"
               THEN LET author == Get(author_entry.val, "author", PyDict(EmptyDict))
                    IN  IF author.tag = "dict"
                          THEN LET author_key == Get(author.val, "key", << >>)
                               IN  IF StartsWithAuthors(author_key)
                                     THEN <<author_key>> \o rest
                                     ELSE rest
                          ELSE IF "key" \in DOMAIN author_entry.val
                                 THEN <<author_entry.val["key"]>> \o rest
                                 ELSE rest
               ELSE rest

extract_authors(work) == extract_authors_from(Get(work, "authors", << >>))

\* ---------------------------------------------------- extract_publish_year
\* str(value) of a tagged value: an int prints its digits, a str is itself.
StrOf(v) == IF v.tag = "int" THEN StrOfNat(v.val) ELSE v.val

\* int(s): surrounding whitespace and one sign are accepted; PyNone stands for
\* the ValueError the caller catches.
ParseInt(s) ==
    LET t == Strip(s)
        signed == t # << >> /\ t[1] \in {"+", "-"}
        digits == IF signed THEN Tail(t) ELSE t
    IN  IF ~IsDigit(digits) THEN PyNone
        ELSE IF signed /\ t[1] = "-" THEN PyInt(0 - IntOfDigits(digits))
        ELSE PyInt(IntOfDigits(digits))

extract_publish_year(work) ==
    LET first_publish_date == Get(work, "first_publish_date", PyNone)
        first_publish_year == Get(work, "first_publish_year", PyNone)
        value == IF first_publish_date.tag = "dict"
                   THEN Get(first_publish_date.val, "value", PyNone)
                   ELSE PyNone
    IN  IF first_publish_date.tag = "dict" /\ Truthy(value)
          THEN LET year_str == Prefix(StrOf(value), YEAR_CHARS)
               IN  IF IsDigit(year_str) THEN PyInt(IntOfDigits(year_str)) ELSE PyNone
          ELSE IF first_publish_year.tag \in {"int", "str"}
                 THEN ParseInt(Prefix(StrOf(first_publish_year), YEAR_CHARS))
                 ELSE PyNone

\* ------------------------------------------------- prepare_embedding_text
prepare_embedding_text(work) ==
    LET title == Get(work, "title", << >>)
        subjects == Get(work, "subjects", << >>)
        subjects_str == Join(<<" ">>, Prefix(subjects, SUBJECT_LIMIT))
    IN  Strip(title \o <<".", " ">> \o subjects_str)

\* --------------------------------------------------------- parse_dump_line
\* the line's fields written over what the payload holds
parse_dump_line_overwrites(line) ==
    IF line.nparts < DUMP_FIELDS THEN PyNone
    ELSE IF line.json.kind = "invalid" THEN PyNone
    ELSE IF line.json.kind = "value" THEN PyRaise("TypeError")
    ELSE PyDict(("type" :> PyStr(line.type)) @@ ("key" :> line.key) @@ line.json.work)

\* A dump line is [nparts, type, key, json]: the number of fields that
\* line.strip().split("\t", 4) yields, its first two fields, and the last one
\* as json.loads sees it: [kind |-> "invalid"], [kind |-> "object", work |-> d],
\* or [kind |-> "value"] for JSON that is no object (null, a number, a string,
\* an array).  The result is PyNone or PyDict(work); on a value that is no
\* object the membership test or the item assignment of lines 128-131 raises
\* TypeError, which the except clause of line 134 does not catch.
parse_dump_line(line) ==
    IF line.nparts < DUMP_FIELDS THEN PyNone
    ELSE IF line.json.kind = "invalid" THEN PyNone
    ELSE IF line.json.kind = "value" THEN PyRaise("TypeError")
    ELSE LET work == line.json.work
             typed == IF "type" \notin DOMAIN work
                        THEN work @@ ("type" :> PyStr(line.type)) ELSE work
         IN  PyDict(IF "key" \notin DOMAIN typed
                      THEN typed @@ ("key" :> line.key) ELSE typed)

\* ------------------------------------------------------------- the encoder
\* model.encode(texts): one vector per text, in input order; the vector is an
\* opaque deterministic function of the text.
Embed(text) == <<"vec", text>>
Encode(texts) == [i \in 1..Len(texts) |-> Embed(texts[i])]

\* the record main() appends to batch_records for an accepted work
MakeRecord(work) ==
    [ol_key |-> Get(work, "key", ""),
     title |-> Get(work, "title", << >>),
     authors |-> extract_authors(work),
     subjects |-> Get(work, "subjects", << >>),
     year |-> extract_publish_year(work),
     search_content |-> prepare_embedding_text(work)]

\* the records paired with the vectors from the other end
DataTuplesReversed(records, vectors) ==
    [i \in 1..Min2(Len(records), Len(vectors)) |->
        [ol_key |-> records[i].ol_key,
         title |-> records[i].title,
         authors |-> records[i].authors,
         first_publish_year |-> records[i].year,
         subjects |-> records[i].subjects,
         search_content |-> records[i].search_content,
         embedding |-> vectors[Len(vectors) + 1 - i]]]

\* data_tuples: zip(batch_records, embeddings), cut to the shorter of the two
DataTuples(records, vectors) ==
    [i \in 1..Min2(Len(records), Len(vectors)) |->
        [ol_key |-> records[i].ol_key,
         title |-> records[i].title,
         authors |-> records[i].authors,
         first_publish_year |-> records[i].year,
         subjects |-> records[i].subjects,
         search_content |-> records[i].search_content,
         embedding |-> vectors[i]]]

\* ------------------------------------------------------------ the books table
\* INSERT ... ON CONFLICT (ol_key) DO NOTHING for one row
InsertRowOverwrite(table, row) ==
    (row.ol_key :> row) @@ table

InsertRow(table, row) ==
    IF row.ol_key \in DOMAIN table THEN table ELSE table @@ (row.ol_key :> row)

\* cur.executemany(INSERT ..., data_tuples): the rows one after the other
RECURSIVE ExecuteManyStopsAtConflict(_, _)
ExecuteManyStopsAtConflict(table, rows) ==
    IF rows = << >> \/ rows[1].ol_key \in DOMAIN table THEN table
    ELSE ExecuteManyStopsAtConflict(InsertRow(table, rows[1]), Tail(rows))

RECURSIVE ExecuteMany(_, _)
ExecuteMany(table, rows) ==
    IF rows = << >> THEN table
    ELSE ExecuteMany(InsertRow(table, rows[1]), Tail(rows))

\* ------------------------------------------------------------------- state
VARIABLES
    input,              \* the lines of DUMP_FILE
    BATCH_SIZE,         \* configuration, fixed over the runs
    MAX_RECORDS,
    BATCH_DELAY,        \* 0, or 1 for any positive delay
    books,              \* the books table: ol_key -> row
    pc,                 \* position of main()
    pos,                \* lines of the file consumed by "for line in f"
    records_processed,
    records_inserted,
    records_skipped,
    errors,
    batch_records,
    batch_texts,
    embeddings,         \* result of model.encode, until the insert
    conn,               \* "none", "open" or "closed"
    exit_code,          \* PyNone while running
    failed_at,          \* the startup step that failed, "none" if none did
    summary,            \* the summaries logged by this run, each the four counters
    run,                \* which invocation of main() this is
    calls,              \* this run's encode / insert calls, with the line numbers of the batch
    milestones,         \* the values of records_inserted this run logged as progress
    pauses,             \* how often this run has slept between batches
    batch_lines,        \* line numbers of the records in batch_records
    faults,             \* failures injected so far
    books0,             \* the table when this run started
    first_run,          \* how the first run ended, and the table it left
    gate_work,          \* the record is_quality_record is applied to on its own
    gate_result,        \* "unset", "accepted" or "rejected"
    unit_work,          \* the record a per-record function is applied to on its own
    unit_result,        \* PyNone, or the function's result tagged with its kind
    author_cache,       \* _author_cache of api/author_enrichment.py: key -> name or None
    cover_cache,        \* _cover_cache of api/cover_enrichment.py: key -> URL or None
    fetched,            \* the last lookup: cache, key, outcome of its request, result
    lookups             \* lookups made so far

vars == <<MIN_SUBJECTS, input, BATCH_SIZE, MAX_RECORDS, BATCH_DELAY, books, pc, pos,
          records_processed, records_inserted, records_skipped, errors,
          batch_records, batch_texts, embeddings, conn, exit_code, failed_at, summary,
          run, calls, milestones, pauses, batch_lines, faults, books0, first_run, gate_work, gate_result,
          unit_work, unit_result, author_cache, cover_cache, fetched, lookups>>

\* the state of the API's enrichment modules, which the ETL never touches
enrichment == <<author_cache, cover_cache, fetched, lookups>>

config == <<MIN_SUBJECTS, input, BATCH_SIZE, MAX_RECORDS, BATCH_DELAY, gate_work, gate_result,
            unit_work, unit_result, enrichment>>
counters == <<records_processed, records_inserted, records_skipped, errors>>
batch == <<batch_records, batch_texts, batch_lines>>
ghost == <<run, books0, first_run>>
ending == <<exit_code, failed_at, summary>>
log == <<calls, milestones, pauses>>

\* ------------------------------------------------------------------ inputs
SubjectNames == <<"a", "b", "c", "d", "e", "f", "g", "h">>
Subjects(n) == [i \in 1..n |-> <<SubjectNames[i]>>]

\* a work line whose payload leaves type and key to the line's fields
PlainLine(k, title, n) ==
    [nparts |-> DUMP_FIELDS, type |-> WORK_TYPE, key |-> k,
     json |-> [kind |-> "object",
               work |-> [title |-> title, subjects |-> Subjects(n)]]]

\* a work line whose payload carries its own key, type, authors and year
FullLine(k, title, n) ==
    [nparts |-> DUMP_FIELDS, type |-> WORK_TYPE, key |-> k,
     json |-> [kind |-> "object",
               work |-> [key |-> k, title |-> title, subjects |-> Subjects(n),
                         type |-> PyDict([key |-> WORK_TYPE]),
                         authors |-> <<PyDict([author |-> PyDict([key |-> <<"authors", "OL1A">>])])>>,
                         first_publish_year |-> PyInt(1999)]]]

BrokenLine ==
    [nparts |-> DUMP_FIELDS, type |-> WORK_TYPE, key |-> "k0",
     json |-> [kind |-> "invalid"]]

\* fewer than five tab-separated fields
ShortLine ==
    [nparts |-> 3, type |-> WORK_TYPE, key |-> "k0", json |-> [kind |-> "invalid"]]

\* the fifth field is JSON, but no object
ValueLine ==
    [nparts |-> DUMP_FIELDS, type |-> WORK_TYPE, key |-> "k0", json |-> [kind |-> "value"]]

\* a record with title and subjects whose type is the line's first field (the
\* payload has none) or the payload's own
FieldTypeLine(k, type) ==
    [nparts |-> DUMP_FIELDS, type |-> type, key |-> k,
     json |-> [kind |-> "object", work |-> [title |-> <<"T">>, subjects |-> Subjects(3)]]]

PayloadTypeLine(k, type) ==
    [nparts |-> DUMP_FIELDS, type |-> WORK_TYPE, key |-> k,
     json |-> [kind |-> "object",
               work |-> [title |-> <<"T">>, subjects |-> Subjects(3), type |-> type]]]

Lines ==
    { FullLine("k1", <<"T">>, 3),     \* accepted
      PlainLine("k1", <<"U">>, 3),    \* accepted, same key, other content
      PlainLine("k2", <<"T">>, 4),    \* accepted
      PlainLine("k3", <<"T">>, 1),    \* too few subjects
      BrokenLine }                    \* invalid JSON

RECURSIVE SeqsUpTo(_, _)
SeqsUpTo(S, n) ==
    IF n = 0 THEN {<< >>}
    ELSE LET shorter == SeqsUpTo(S, n - 1)
         IN  shorter \cup {Append(q, x) : q \in {r \in shorter : Len(r) = n - 1}, x \in S}

\* longer files: the scenarios of the specification's section 8 (8 accepted
\* records with cap 5 in batches of 3; 5 accepted records in batches of 2),
\* and two files that mix every kind of line
Numbered(n) ==
    [i \in 1..n |-> PlainLine(<<"k1", "k2", "k3", "k4", "k5", "k6", "k7", "k8">>[i], <<"T">>, 3)]

Mixed ==
    <<FullLine("k1", <<"T">>, 3), PlainLine("k3", <<"T">>, 1), BrokenLine,
      PlainLine("k2", <<"T">>, 4), PlainLine("k1", <<"U">>, 3)>>

\* every way a line gives its type, and a line of too few fields
Typed ==
    <<ShortLine, FieldTypeLine("k1", "/type/edition"),
      PayloadTypeLine("k2", PyStr("/type/edition")),
      PayloadTypeLine("k3", PyDict([key |-> WORK_TYPE])),
      PayloadTypeLine("k4", PyDict([key |-> "/type/edition"])),
      PayloadTypeLine("k5", PyNone), PayloadTypeLine("k6", PyStr(WORK_TYPE))>>

\* a file with a line that makes parse_dump_line raise
Raising ==
    <<PlainLine("k1", <<"T">>, 3), PlainLine("k3", <<"T">>, 1), ValueLine,
      PlainLine("k2", <<"T">>, 4)>>

Scenarios ==
    { [input |-> Numbered(8), BATCH_SIZE |-> 3, MAX_RECORDS |-> 5, BATCH_DELAY |-> 1],
      [input |-> Numbered(5), BATCH_SIZE |-> 2, MAX_RECORDS |-> 0, BATCH_DELAY |-> 1],
      [input |-> Numbered(5), BATCH_SIZE |-> 2, MAX_RECORDS |-> 0, BATCH_DELAY |-> 0],
      [input |-> Mixed, BATCH_SIZE |-> 2, MAX_RECORDS |-> 0, BATCH_DELAY |-> 1],
      [input |-> Mixed, BATCH_SIZE |-> 2, MAX_RECORDS |-> 2, BATCH_DELAY |-> 0],
      [input |-> Typed, BATCH_SIZE |-> 2, MAX_RECORDS |-> 0, BATCH_DELAY |-> 1],
      [input |-> Raising, BATCH_SIZE |-> 1, MAX_RECORDS |-> 0, BATCH_DELAY |-> 1],
      [input |-> Raising, BATCH_SIZE |-> 1, MAX_RECORDS |-> 1, BATCH_DELAY |-> 0] }

Configurations ==
    [input : SeqsUpTo(Lines, MaxLines), BATCH_SIZE : 1..MaxBatch, MAX_RECORDS : 0..MaxCap,
     BATCH_DELAY : {1}]
        \cup Scenarios

\* -------------------------------------------------------------------- main
\* the state main() starts from: nothing connected, no counter set
\* author_enrichment.py:18, cover_enrichment.py:20: both caches start empty
NoLookups ==
    /\ author_cache = EmptyDict
    /\ cover_cache = EmptyDict
    /\ fetched = [cache |-> "none", key |-> << >>, outcome |-> "none",
                  requested |-> FALSE, result |-> PyNone]
    /\ lookups = 0

Fresh ==
    /\ pc = "startup"
    /\ pos = 0
    /\ records_processed = 0
    /\ records_inserted = 0
    /\ records_skipped = 0
    /\ errors = 0
    /\ batch_records = << >>
    /\ batch_texts = << >>
    /\ batch_lines = << >>
    /\ embeddings = << >>
    /\ conn = "none"
    /\ exit_code = PyNone
    /\ failed_at = "none"
    /\ summary = << >>
    /\ calls = << >>
    /\ milestones = << >>
    /\ pauses = 0

Init ==
    /\ \E c \in Configurations :
          /\ input = c.input
          /\ BATCH_SIZE = c.BATCH_SIZE
          /\ MAX_RECORDS = c.MAX_RECORDS
          /\ BATCH_DELAY = c.BATCH_DELAY
    /\ MIN_SUBJECTS = DEFAULT_MIN_SUBJECTS
    /\ books = EmptyDict
    /\ Fresh
    /\ NoLookups
    /\ run = 1
    /\ faults = 0
    /\ books0 = EmptyDict
    /\ first_run = [ended |-> FALSE, clean |-> FALSE, books |-> EmptyDict]
    /\ gate_work = EmptyDict
    /\ gate_result = "unset"
    /\ unit_work = EmptyDict
    /\ unit_result = PyNone

\* lines 153-207: configuration checked, model loaded, database connected,
\* counters and batch initialised
Startup ==
    /\ pc = "startup"
    /\ pc' = "read"
    /\ conn' = "open"
    /\ UNCHANGED <<config, books, pos, counters, batch, embeddings, ending,
                   log, faults, ghost>>

\* the startup steps that end in sys.exit(1): DATABASE_URL is not set (153-156),
\* the dump file does not exist (158-160), the model does not load (176-181),
\* the database does not connect (185-191)
StartupFailures == {"DATABASE_URL", "DUMP_FILE", "model", "connect"}

\* a failed startup step that is logged and passed over
StartupFailIgnored ==
    /\ pc = "startup"
    /\ \E step \in StartupFailures : failed_at' = step
    /\ pc' = "read"
    /\ conn' = "open"
    /\ UNCHANGED <<config, books, pos, counters, batch, embeddings, exit_code,
                   summary, log, faults, ghost>>

\* lines 153-191: a startup check fails and the process exits with status 1
StartupFail ==
    /\ pc = "startup"
    /\ \E step \in StartupFailures : failed_at' = step
    /\ pc' = "exit"
    /\ exit_code' = PyInt(1)
    /\ UNCHANGED <<config, books, pos, counters, batch, embeddings, conn, summary,
                   log, faults, ghost>>

\* the limit test with the boundary left out
LimitReachedStrict(n) == MAX_RECORDS > 0 /\ n > MAX_RECORDS

\* lines 220, 294, 311: MAX_RECORDS > 0 and records_inserted >= MAX_RECORDS
LimitReached(n) == MAX_RECORDS > 0 /\ n >= MAX_RECORDS

CapReached == LimitReached(records_inserted)

\* line 290: records_inserted % 10000 == 0, with the interval scaled
AtMilestone(n) == n % MilestoneEvery = 0

\* the sleep made whatever the delay
ThrottleAlways == pauses' = pauses + 1

\* lines 306-308: if BATCH_DELAY > 0: time.sleep(BATCH_DELAY)
Throttle == pauses' = pauses + (IF BATCH_DELAY > 0 THEN 1 ELSE 0)

\* lines 195-198, 213-215: main() keeps four counters and none for the lines
\* parse_dump_line rejects; the number of unparsed lines it has counted is 0
\* in every state
records_unparsed == 0

BatchFullStrict(n) == n > BATCH_SIZE

\* line 249
BatchFull(n) == n >= BATCH_SIZE

\* line 209: the file is exhausted
ReadEof ==
    /\ pc = "read"
    /\ pos = Len(input)
    /\ pc' = "final"
    /\ UNCHANGED <<config, books, pos, counters, batch, embeddings, conn, ending,
                   log, faults, ghost>>

\* the fatal exit without the finally clause
ReadFatalLeavesOpen ==
    /\ pc = "read"
    /\ pos < Len(input)
    /\ parse_dump_line(input[pos + 1]).tag = "raise"
    /\ pos' = pos + 1
    /\ exit_code' = PyInt(1)
    /\ pc' = "exit"
    /\ UNCHANGED <<config, books, counters, batch, embeddings, conn, failed_at, summary,
                   log, faults, ghost>>

\* lines 209-213, 349-353: parse_dump_line raises; the exception leaves the
\* loop and the with block, is logged as fatal, sys.exit(1) is called and the
\* finally clause closes the connection; the summary lines are not reached
ReadFatal ==
    /\ pc = "read"
    /\ pos < Len(input)
    /\ parse_dump_line(input[pos + 1]).tag = "raise"
    /\ pos' = pos + 1
    /\ conn' = "closed"
    /\ exit_code' = PyInt(1)
    /\ pc' = "exit"
    /\ UNCHANGED <<config, books, counters, batch, embeddings, failed_at, summary,
                   log, faults, ghost>>

\* lines 209-215: a line that does not parse is passed over
ReadUnparsed ==
    /\ pc = "read"
    /\ pos < Len(input)
    /\ parse_dump_line(input[pos + 1]).tag # "raise"
    /\ ~Truthy(parse_dump_line(input[pos + 1]))
    /\ pos' = pos + 1
    /\ UNCHANGED <<config, books, pc, counters, batch, embeddings, conn, ending,
                   log, faults, ghost>>

\* lines 209-227: a parsed line that is counted and then leaves the loop body
\* early: the limit is already reached (break) or the record fails the filter
ReadSkipped ==
    /\ pc = "read"
    /\ pos < Len(input)
    /\ LET parsed == parse_dump_line(input[pos + 1])
       IN  /\ parsed.tag # "raise"
           /\ Truthy(parsed)
           /\ CapReached \/ ~is_quality_record(parsed.val)
           /\ pos' = pos + 1
           /\ records_processed' = records_processed + 1
           /\ IF CapReached
                THEN pc' = "final" /\ UNCHANGED records_skipped
                ELSE pc' = pc /\ records_skipped' = records_skipped + 1
    /\ UNCHANGED <<config, books, records_inserted, errors, batch, embeddings, conn,
                   ending, log, faults, ghost>>

\* lines 209-249: a parsed line that passes the filter joins the batch
ReadAccepted ==
    /\ pc = "read"
    /\ pos < Len(input)
    /\ LET parsed == parse_dump_line(input[pos + 1])
       IN  /\ parsed.tag # "raise"
           /\ Truthy(parsed)
           /\ ~CapReached
           /\ is_quality_record(parsed.val)
           /\ LET record == MakeRecord(parsed.val)
              IN  /\ batch_records' = Append(batch_records, record)
                  /\ batch_texts' = Append(batch_texts, record.search_content)
                  /\ batch_lines' = Append(batch_lines, pos + 1)
    /\ pos' = pos + 1
    /\ records_processed' = records_processed + 1
    /\ pc' = IF BatchFull(Len(batch_records')) THEN "encode" ELSE "read"
    /\ UNCHANGED <<config, books, records_inserted, records_skipped, errors, embeddings,
                   conn, ending, log, faults, ghost>>

Call(op, ok) == [op |-> op, ok |-> ok, lines |-> batch_lines]

\* lines 250-257: model.encode returns
EncodeBatch ==
    /\ pc = "encode"
    /\ embeddings' = Encode(batch_texts)
    /\ calls' = Append(calls, Call("encode", TRUE))
    /\ UNCHANGED <<milestones, pauses>>
    /\ pc' = "write"
    /\ UNCHANGED <<config, books, pos, counters, batch, conn, ending, faults, ghost>>

\* the batch is dropped whole (lines 302-304)
ResetKeepsBatch ==
    /\ UNCHANGED batch
    /\ embeddings' = << >>

ResetBatch ==
    /\ batch_records' = << >>
    /\ batch_texts' = << >>
    /\ batch_lines' = << >>
    /\ embeddings' = << >>

\* lines 250-257, 298-312: model.encode raises
EncodeBatchFail ==
    /\ pc = "encode"
    /\ faults < MaxFaults
    /\ faults' = faults + 1
    /\ calls' = Append(calls, Call("encode", FALSE))
    /\ UNCHANGED milestones
    /\ Throttle
    /\ errors' = errors + Len(batch_records)
    /\ ResetBatch
    /\ pc' = IF CapReached THEN "final" ELSE "read"
    /\ UNCHANGED <<config, books, pos, records_processed, records_inserted,
                   records_skipped, conn, ending, ghost>>

\* lines 259-296, 302-312: the insert succeeds; the loop goes on with an empty
\* batch, or is left by the break of line 296 with the batch as it is
WriteBatch ==
    /\ pc = "write"
    /\ books' = ExecuteMany(books, DataTuples(batch_records, embeddings))
    /\ calls' = Append(calls, Call("insert", TRUE))
    /\ records_inserted' = records_inserted + Len(batch_records)
    /\ milestones' = IF AtMilestone(records_inserted')
                      THEN Append(milestones, records_inserted') ELSE milestones
    /\ IF LimitReached(records_inserted')
         THEN pc' = "final" /\ UNCHANGED <<batch, embeddings, pauses>>
         ELSE pc' = "read" /\ ResetBatch /\ Throttle
    /\ UNCHANGED <<config, pos, records_processed, records_skipped, errors, conn,
                   ending, faults, ghost>>

\* lines 273-280, 298-312: executemany raises after the database has applied
\* the first n rows (the connection is in autocommit mode, line 186, and the
\* batch is inside no transaction)
WriteBatchFail ==
    /\ pc = "write"
    /\ faults < MaxFaults
    /\ faults' = faults + 1
    /\ \E n \in 0..(Len(batch_records) - 1) :
          books' = ExecuteMany(books, SubSeq(DataTuples(batch_records, embeddings), 1, n))
    /\ calls' = Append(calls, Call("insert", FALSE))
    /\ UNCHANGED milestones
    /\ Throttle
    /\ errors' = errors + Len(batch_records)
    /\ ResetBatch
    /\ pc' = IF CapReached THEN "final" ELSE "read"
    /\ UNCHANGED <<config, pos, records_processed, records_inserted, records_skipped,
                   conn, ending, ghost>>

\* line 315: nothing is left to flush
FinalEmpty ==
    /\ pc = "final"
    /\ batch_records = << >>
    /\ pc' = "close"
    /\ UNCHANGED <<config, books, pos, counters, batch, embeddings, conn, ending,
                   log, faults, ghost>>

\* lines 315-322: model.encode returns for what batch_records holds
FinalEncode ==
    /\ pc = "final"
    /\ batch_records # << >>
    /\ embeddings' = Encode(batch_texts)
    /\ calls' = Append(calls, Call("encode", TRUE))
    /\ UNCHANGED <<milestones, pauses>>
    /\ pc' = "final_write"
    /\ UNCHANGED <<config, books, pos, counters, batch, conn, ending, faults, ghost>>

\* lines 315-322, 343-345: model.encode raises
FinalEncodeFail ==
    /\ pc = "final"
    /\ batch_records # << >>
    /\ faults < MaxFaults
    /\ faults' = faults + 1
    /\ calls' = Append(calls, Call("encode", FALSE))
    /\ UNCHANGED <<milestones, pauses>>
    /\ errors' = errors + Len(batch_records)
    /\ pc' = "close"
    /\ UNCHANGED <<config, books, pos, records_processed, records_inserted,
                   records_skipped, batch, embeddings, conn, ending, ghost>>

\* lines 323-342
FinalWrite ==
    /\ pc = "final_write"
    /\ books' = ExecuteMany(books, DataTuples(batch_records, embeddings))
    /\ calls' = Append(calls, Call("insert", TRUE))
    /\ UNCHANGED <<milestones, pauses>>
    /\ records_inserted' = records_inserted + Len(batch_records)
    /\ pc' = "close"
    /\ UNCHANGED <<config, pos, records_processed, records_skipped, errors, batch,
                   embeddings, conn, ending, faults, ghost>>

\* lines 335-345: executemany raises after the first n rows
FinalWriteFail ==
    /\ pc = "final_write"
    /\ faults < MaxFaults
    /\ faults' = faults + 1
    /\ \E n \in 0..(Len(batch_records) - 1) :
          books' = ExecuteMany(books, SubSeq(DataTuples(batch_records, embeddings), 1, n))
    /\ calls' = Append(calls, Call("insert", FALSE))
    /\ UNCHANGED <<milestones, pauses>>
    /\ errors' = errors + Len(batch_records)
    /\ pc' = "close"
    /\ UNCHANGED <<config, pos, records_processed, records_inserted, records_skipped,
                   batch, embeddings, conn, ending, ghost>>

\* lines 347-365: the connection is closed, the summary logged, main() returns
Close ==
    /\ pc = "close"
    /\ conn' = "closed"
    /\ summary' = Append(summary, [processed |-> records_processed,
                                   inserted |-> records_inserted,
                                   skipped |-> records_skipped,
                                   errors |-> errors])
    /\ exit_code' = PyInt(0)
    /\ pc' = "done"
    /\ UNCHANGED <<config, books, pos, counters, batch, embeddings, failed_at, log,
                   faults, ghost>>

Running == pc \in {"read", "encode", "write", "final", "final_write", "close"}

\* the process is killed: what it held in memory is gone, the table keeps
\* what was committed, which during an insert is any number of the batch's
\* first rows (autocommit, line 186)
Interrupt ==
    /\ Running
    /\ IF pc \in {"write", "final_write"}
         THEN \E n \in 0..Len(batch_records) :
                 books' = ExecuteMany(books, SubSeq(DataTuples(batch_records, embeddings), 1, n))
         ELSE books' = books
    /\ pc' = "killed"
    /\ pos' = 0
    /\ records_processed' = 0
    /\ records_inserted' = 0
    /\ records_skipped' = 0
    /\ errors' = 0
    /\ ResetBatch
    /\ conn' = "closed"
    /\ calls' = << >>
    /\ milestones' = << >>
    /\ pauses' = 0
    /\ UNCHANGED <<config, ending, faults, ghost>>

Ended == pc \in {"done", "exit", "killed"}

\* main() is started again on the same file, configuration and table
Rerun ==
    /\ Ended
    /\ run < MaxRuns
    /\ run' = run + 1
    /\ books0' = books
    /\ first_run' = IF first_run.ended THEN first_run
                    ELSE IF pc = "done" /\ errors = 0
                      THEN [ended |-> TRUE, clean |-> TRUE, books |-> books]
                      ELSE [ended |-> TRUE, clean |-> FALSE, books |-> EmptyDict]
    /\ pc' = "startup"
    /\ pos' = 0
    /\ records_processed' = 0
    /\ records_inserted' = 0
    /\ records_skipped' = 0
    /\ errors' = 0
    /\ ResetBatch
    /\ conn' = "none"
    /\ exit_code' = PyNone
    /\ failed_at' = "none"
    /\ summary' = << >>
    /\ calls' = << >>
    /\ milestones' = << >>
    /\ pauses' = 0
    /\ UNCHANGED <<config, books, faults>>

Next ==
    \/ Startup
    \/ StartupFail
    \/ ReadEof
    \/ ReadFatal
    \/ ReadUnparsed
    \/ ReadSkipped
    \/ ReadAccepted
    \/ EncodeBatch
    \/ EncodeBatchFail
    \/ WriteBatch
    \/ WriteBatchFail
    \/ FinalEmpty
    \/ FinalEncode
    \/ FinalEncodeFail
    \/ FinalWrite
    \/ FinalWriteFail
    \/ Close
    \/ Interrupt
    \/ Rerun

Spec == Init /\ [][Next]_vars

\* ------------------------------------------ is_quality_record on its own
\* Records over every shape of the three fields the predicate reads.
GateTitles == {<< >>, <<"T">>}
GateTypes ==
    { PyStr(WORK_TYPE), PyStr("/type/edition"), PyDict([key |-> WORK_TYPE]),
      PyDict([key |-> "/type/edition"]), PyDict(EmptyDict) }
GateSubjects == {Subjects(n) : n \in 0..(MaxMin + 1)}

Optional(field, values) == {EmptyDict} \cup {field :> v : v \in values}

GateWorks ==
    { t @@ y @@ u : t \in Optional("title", GateTitles),
                    y \in Optional("type", GateTypes),
                    u \in Optional("subjects", GateSubjects) }

InitGate ==
    /\ MIN_SUBJECTS \in 0..MaxMin
    /\ gate_work \in GateWorks
    /\ gate_result = "unset"
    /\ input = << >>
    /\ BATCH_SIZE = 1
    /\ MAX_RECORDS = 0
    /\ BATCH_DELAY = 0
    /\ books = EmptyDict
    /\ Fresh
    /\ NoLookups
    /\ run = 1
    /\ faults = 0
    /\ books0 = EmptyDict
    /\ first_run = [ended |-> FALSE, clean |-> FALSE, books |-> EmptyDict]
    /\ unit_work = EmptyDict
    /\ unit_result = PyNone

\* lines 45-66, applied to gate_work under the configured MIN_SUBJECTS
CheckQuality ==
    /\ gate_result = "unset"
    /\ gate_result' = IF is_quality_record(gate_work) THEN "accepted" ELSE "rejected"
    /\ UNCHANGED <<enrichment, MIN_SUBJECTS, input, BATCH_SIZE, MAX_RECORDS, BATCH_DELAY, gate_work, unit_work,
                   unit_result, books, pc, pos, counters, batch, embeddings, conn,
                   ending, log, faults, ghost>>

NextGate == CheckQuality

SpecGate == InitGate /\ [][NextGate]_vars

\* ------------------- prepare_embedding_text and extract_authors on their own
\* Records over the titles, subject lists and author lists the two functions
\* read: subject lists on both sides of the limit of line 143, titles and
\* subjects with white space at their ends, every shape of an authors entry.
NumberedSubjects(n) == [i \in 1..n |-> <<"s">> \o StrOfNat(i)]
LastReplaced(subjects) == [subjects EXCEPT ![Len(subjects)] = <<"z">>]

UnitTitles == {<<"T">>, <<" ", "T">>, <<"T", " ">>}
UnitSubjects ==
    {NumberedSubjects(n) : n \in 0..MaxSubjects}
        \cup {LastReplaced(NumberedSubjects(n)) : n \in 1..MaxSubjects}
        \cup {<< <<"a", " ">>, <<" ", "b">> >>, << <<" ">> >>}

TextWorks ==
    { t @@ u : t \in Optional("title", UnitTitles),
               u \in Optional("subjects", UnitSubjects) }

AuthorKey(id) == <<"authors", id>>
AuthorEntries ==
    { PyDict([author |-> PyDict([key |-> AuthorKey("OL1A")])]),    \* nested
      PyDict([author |-> PyDict([key |-> <<"OL2A">>])]),           \* nested, key without "/authors/"
      PyDict([author |-> PyDict(EmptyDict)]),                      \* nested, no key
      PyDict([key |-> AuthorKey("OL3A")]),                         \* flat
      PyDict([author |-> PyStr(<<"x">>), key |-> AuthorKey("OL4A")]),
      PyDict([type |-> PyStr(<<"t">>)]),                           \* neither shape
      PyStr(<<"x">>) }                                             \* no object

AuthorWorks ==
    { [title |-> <<"T">>, authors |-> a] : a \in SeqsUpTo(AuthorEntries, MaxAuthors) }

\* every shape of the two fields extract_publish_year reads
Chars1987 == <<"1", "9", "8", "7", "-", "0", "5">>
CharsCirca == <<"c", ".", " ", "1", "9", "9", "9">>
DateValues ==
    { PyStr(Chars1987), PyStr(CharsCirca), PyStr(<<"1", "9", "8">>), PyStr(<< >>),
      PyInt(2001), PyNone }
Dates ==
    {PyDict([value |-> v]) : v \in DateValues}
        \cup {PyDict(EmptyDict), PyStr(Chars1987), PyNone}
Years ==
    { PyInt(1999), PyStr(<<"2", "0", "0", "5">>), PyStr(<<"2", "0", "0", "5", "1">>),
      PyStr(<<"n", "/", "a">>), PyStr(<<"-", "5", "0", "0">>), PyNone, PyDict(EmptyDict) }

YearWorks ==
    { d @@ y : d \in Optional("first_publish_date", Dates),
               y \in Optional("first_publish_year", Years) }

\* dump lines whose payload has or lacks a type and a key of its own
ParseLines ==
    { [nparts |-> DUMP_FIELDS, type |-> t, key |-> "k1",
       json |-> [kind |-> "object",
                 work |-> [title |-> <<"T">>, subjects |-> Subjects(3)] @@ y @@ k]] :
         t \in {WORK_TYPE, "/type/edition"},
         y \in Optional("type", {PyStr("/type/edition"), PyDict([key |-> WORK_TYPE]), PyNone}),
         k \in Optional("key", {"k9"}) }
        \cup {ShortLine, BrokenLine, ValueLine}

IsLine(x) == "nparts" \in DOMAIN x

UnitWorks == TextWorks \cup AuthorWorks \cup YearWorks \cup ParseLines

InitRecord ==
    /\ MIN_SUBJECTS = DEFAULT_MIN_SUBJECTS
    /\ unit_work \in UnitWorks
    /\ unit_result = PyNone
    /\ gate_work = EmptyDict
    /\ gate_result = "unset"
    /\ input = << >>
    /\ BATCH_SIZE = 1
    /\ MAX_RECORDS = 0
    /\ BATCH_DELAY = 0
    /\ books = EmptyDict
    /\ Fresh
    /\ NoLookups
    /\ run = 1
    /\ faults = 0
    /\ books0 = EmptyDict
    /\ first_run = [ended |-> FALSE, clean |-> FALSE, books |-> EmptyDict]

\* lines 139-147, applied to unit_work
ApplyText ==
    /\ unit_result = PyNone
    /\ ~IsLine(unit_work)
    /\ unit_result' = [tag |-> "text", val |-> prepare_embedding_text(unit_work)]
    /\ UNCHANGED <<enrichment, MIN_SUBJECTS, input, BATCH_SIZE, MAX_RECORDS, BATCH_DELAY, gate_work, gate_result,
                   unit_work, books, pc, pos, counters, batch, embeddings, conn,
                   ending, log, faults, ghost>>

\* lines 69-87, applied to unit_work
ApplyAuthors ==
    /\ unit_result = PyNone
    /\ ~IsLine(unit_work)
    /\ unit_result' = [tag |-> "authors", val |-> extract_authors(unit_work)]
    /\ UNCHANGED <<enrichment, MIN_SUBJECTS, input, BATCH_SIZE, MAX_RECORDS, BATCH_DELAY, gate_work, gate_result,
                   unit_work, books, pc, pos, counters, batch, embeddings, conn,
                   ending, log, faults, ghost>>

\* lines 90-112, applied to unit_work
ApplyYear ==
    /\ unit_result = PyNone
    /\ ~IsLine(unit_work)
    /\ unit_result' = [tag |-> "year", val |-> extract_publish_year(unit_work)]
    /\ UNCHANGED <<enrichment, MIN_SUBJECTS, input, BATCH_SIZE, MAX_RECORDS, BATCH_DELAY, gate_work,
                   gate_result, unit_work, books, pc, pos, counters, batch, embeddings,
                   conn, ending, log, faults, ghost>>

\* lines 115-136, applied to unit_work when it is a line of the dump
ApplyParse ==
    /\ unit_result = PyNone
    /\ IsLine(unit_work)
    /\ unit_result' = [tag |-> "parsed", val |-> parse_dump_line(unit_work)]
    /\ UNCHANGED <<enrichment, MIN_SUBJECTS, input, BATCH_SIZE, MAX_RECORDS, BATCH_DELAY, gate_work,
                   gate_result, unit_work, books, pc, pos, counters, batch, embeddings,
                   conn, ending, log, faults, ghost>>

NextRecord == ApplyText \/ ApplyAuthors \/ ApplyYear \/ ApplyParse

SpecRecord == InitRecord /\ [][NextRecord]_vars

\* ------------------------------------ the enrichment caches of the API
\* fetch_author_name and fetch_cover_url_from_work, each call taken as one
\* step with the outcome of its HTTP request drawn from the outcomes the code
\* tells apart.  A key is the sequence of its parts ("/works/", "OL", "1",
\* "W"); a name or a URL is a one-part sequence.

\* everything but the enrichment state
etl == <<MIN_SUBJECTS, input, BATCH_SIZE, MAX_RECORDS, BATCH_DELAY, books, pc, pos,
         records_processed, records_inserted, records_skipped, errors,
         batch_records, batch_texts, embeddings, conn, exit_code, failed_at, summary,
         run, calls, milestones, pauses, batch_lines, faults, books0, first_run,
         gate_work, gate_result, unit_work, unit_result>>

Put(cache, k, v) == (k :> v) @@ cache

AuthorKeys == { <<"OL", "1", "A">>, <<"/authors/", "OL", "2", "A">>, <<"Jane Doe">> }
WorkKeys == { <<"/works/", "OL", "1", "W">>, <<"OL", "2", "W">>, <<"x">> }

\* what client.get, raise_for_status and response.json() give fetch_author_name
AuthorOutcomes ==
    {"name", "personal_name", "no_name", "http_404", "http_500", "timeout", "exception"}

\* the same for fetch_cover_url_from_work: a first edition with an ISBN-13,
\* with an ISBN-10, with its OLID only, no entries, an entry without a key,
\* an edition key that is no edition id, and the failures
CoverOutcomes ==
    {"isbn_13", "isbn_10", "olid", "no_entries", "no_edition_key", "no_edition_id",
     "http_404", "http_500", "timeout", "exception"}

\* author_enrichment.py:81: not author_key.startswith("OL") and "/authors/"
\* not in author_key
LooksLikeName(author_key) ==
    /\ ~(author_key # << >> /\ author_key[1] = "OL")
    /\ \A i \in 1..Len(author_key) : author_key[i] # "/authors/"

\* cover_enrichment.py:26-48
extract_work_key(ol_key) ==
    IF ol_key = << >> THEN PyNone
    ELSE IF ol_key[1] = "/works/" THEN PyStr(ol_key)
    ELSE IF ol_key[1] = "OL" /\ ol_key[Len(ol_key)] = "W" THEN PyStr(<<"/works/">> \o ol_key)
    ELSE PyNone

Answer(cache, result, requested) ==
    [cache |-> cache, result |-> result, requested |-> requested]

\* author_enrichment.py:66-133
fetch_author_name(cache, author_key, outcome) ==
    IF author_key \in DOMAIN cache THEN Answer(cache, cache[author_key], FALSE)
    ELSE IF LooksLikeName(author_key)
      THEN Answer(Put(cache, author_key, PyStr(author_key)), PyStr(author_key), FALSE)
    ELSE CASE outcome = "name" ->
                Answer(Put(cache, author_key, PyStr(<<"Name">>)), PyStr(<<"Name">>), TRUE)
           [] outcome = "personal_name" ->
                Answer(Put(cache, author_key, PyStr(<<"Personal">>)),
                       PyStr(<<"Personal">>), TRUE)
           [] outcome = "no_name" -> Answer(Put(cache, author_key, PyNone), PyNone, TRUE)
           [] outcome = "http_404" -> Answer(Put(cache, author_key, PyNone), PyNone, TRUE)
           [] outcome = "http_500" -> Answer(cache, PyNone, TRUE)
           [] outcome = "timeout" -> Answer(cache, PyNone, TRUE)
           [] outcome = "exception" -> Answer(cache, PyNone, TRUE)

\* cover_enrichment.py:172-178: except httpx.HTTPStatusError; the status is
\* logged and None is stored whatever the status
CoverHttpError(cache, work_key, outcome) ==
    Answer(Put(cache, work_key, PyNone), PyNone, TRUE)

\* cover_enrichment.py:93-185
fetch_cover_url_from_work(cache, work_key, outcome) ==
    IF work_key \in DOMAIN cache THEN Answer(cache, cache[work_key], FALSE)
    ELSE IF ~Truthy(extract_work_key(work_key))
      THEN Answer(Put(cache, work_key, PyNone), PyNone, FALSE)
    ELSE CASE outcome \in {"isbn_13", "isbn_10", "olid"} ->
                Answer(Put(cache, work_key, PyStr(<<outcome>>)), PyStr(<<outcome>>), TRUE)
           [] outcome \in {"no_entries", "no_edition_key", "no_edition_id"} ->
                Answer(Put(cache, work_key, PyNone), PyNone, TRUE)
           [] outcome \in {"http_404", "http_500"} -> CoverHttpError(cache, work_key, outcome)
           [] outcome = "timeout" -> Answer(cache, PyNone, TRUE)
           [] outcome = "exception" -> Answer(cache, PyNone, TRUE)

InitCache ==
    /\ MIN_SUBJECTS = DEFAULT_MIN_SUBJECTS
    /\ unit_work = EmptyDict
    /\ unit_result = PyNone
    /\ gate_work = EmptyDict
    /\ gate_result = "unset"
    /\ input = << >>
    /\ BATCH_SIZE = 1
    /\ MAX_RECORDS = 0
    /\ BATCH_DELAY = 0
    /\ books = EmptyDict
    /\ Fresh
    /\ NoLookups
    /\ run = 1
    /\ faults = 0
    /\ books0 = EmptyDict
    /\ first_run = [ended |-> FALSE, clean |-> FALSE, books |-> EmptyDict]

Fetched(cache, key, outcome, answer) ==
    [cache |-> cache, key |-> key, outcome |-> IF answer.requested THEN outcome ELSE "none",
     requested |-> answer.requested, result |-> answer.result]

\* a call of fetch_author_name
FetchAuthor ==
    /\ lookups < MaxLookups
    /\ \E author_key \in AuthorKeys, outcome \in AuthorOutcomes :
          LET answer == fetch_author_name(author_cache, author_key, outcome)
          IN  /\ author_cache' = answer.cache
              /\ fetched' = Fetched("author", author_key, outcome, answer)
    /\ lookups' = lookups + 1
    /\ UNCHANGED <<cover_cache, etl>>

\* a call of fetch_cover_url_from_work
FetchCover ==
    /\ lookups < MaxLookups
    /\ \E work_key \in WorkKeys, outcome \in CoverOutcomes :
          LET answer == fetch_cover_url_from_work(cover_cache, work_key, outcome)
          IN  /\ cover_cache' = answer.cache
              /\ fetched' = Fetched("cover", work_key, outcome, answer)
    /\ lookups' = lookups + 1
    /\ UNCHANGED <<author_cache, etl>>

\* author_enrichment.py:251-254
clear_author_cache ==
    /\ author_cache # EmptyDict
    /\ author_cache' = EmptyDict
    /\ UNCHANGED <<cover_cache, fetched, lookups, etl>>

\* cover_enrichment.py:207-210
clear_cover_cache ==
    /\ cover_cache # EmptyDict
    /\ cover_cache' = EmptyDict
    /\ UNCHANGED <<author_cache, fetched, lookups, etl>>

NextCache == FetchAuthor \/ FetchCover \/ clear_author_cache \/ clear_cover_cache

SpecCache == InitCache /\ [][NextCache]_vars

\* =================================================================== claims
\* What the claims speak about, read off the file and the configuration.

\* the line numbers of the file whose record main() accepts, in file order
RECURSIVE AcceptedUpTo(_)
AcceptedUpTo(n) ==
    IF n = 0 THEN << >>
    ELSE LET parsed == parse_dump_line(input[n])
         IN  IF parsed.tag = "dict" /\ is_quality_record(parsed.val)
               THEN Append(AcceptedUpTo(n - 1), n)
               ELSE AcceptedUpTo(n - 1)
Accepted == AcceptedUpTo(Len(input))

\* the row a line of the file stands for
RowOf(n) ==
    LET record == MakeRecord(parse_dump_line(input[n]).val)
    IN  DataTuples(<<record>>, Encode(<<record.search_content>>))[1]
KeyOf(n) == RowOf(n).ol_key

DistinctKeys ==
    \A i, j \in 1..Len(Accepted) : i # j => KeyOf(Accepted[i]) # KeyOf(Accepted[j])

CeilDiv(a, b) == (a + b - 1) \div b
\* ceil(K/B)*B
CapTarget == CeilDiv(MAX_RECORDS, BATCH_SIZE) * BATCH_SIZE

Elems(q) == {q[i] : i \in 1..Len(q)}
Inserts(ok) == {i \in 1..Len(calls) : calls[i].op = "insert" /\ calls[i].ok = ok}
Encodes(ok) == {i \in 1..Len(calls) : calls[i].op = "encode" /\ calls[i].ok = ok}

\* the step appends a call of this kind to the log
Called(op, ok) ==
    /\ Len(calls') = Len(calls) + 1
    /\ calls'[Len(calls')].op = op
    /\ calls'[Len(calls')].ok = ok

\* ----------------------------------------------------------------------- C1
\* C1: once a first run on the empty table has completed, every later run over
\* the same file adds no row: in every state after it the table is exactly the
\* table the first run left.  The runs are runs in which no batch fails
\* (first_run.clean, and no failure injected since); they may be capped, and a
\* later run may be killed.
C1_IdempotentRerun ==
    (first_run.clean /\ faults = 0) => books = first_run.books

\* a second run has gone through the file and written its batches again
C1_Witness ==
    /\ first_run.clean
    /\ faults = 0
    /\ pc = "done"
    /\ Inserts(TRUE) # {}
    /\ Cardinality(DOMAIN books) >= 2

\* ----------------------------------------------------------------------- C2
\* C2: an insert never changes a row whose key the table already holds, and of
\* several records of one batch with the same new key the first one is stored:
\* the later record leaves title, authors, year, subjects, search text and
\* embedding of the stored row as they are.
FirstInBatch(k) ==
    LET rows == DataTuples(batch_records, embeddings)
    IN  rows[CHOOSE i \in 1..Len(rows) :
                /\ rows[i].ol_key = k
                /\ \A j \in 1..(i - 1) : rows[j].ol_key # k]

KeepsStoredRows ==
    pc \in {"write", "final_write"} =>
        \A i \in 1..Len(batch_records) :
            LET k == batch_records[i].ol_key
            IN  /\ k \in DOMAIN books => k \in DOMAIN books' /\ books'[k] = books[k]
                /\ (k \notin DOMAIN books /\ k \in DOMAIN books') =>
                      books'[k] = FirstInBatch(k)

C2_NoOverwriteOnConflict == [][KeepsStoredRows]_vars

\* an insert has succeeded with a record whose key was stored with another title
C2_Witness ==
    \E c \in Inserts(TRUE) : \E n \in Elems(calls[c].lines) :
        /\ KeyOf(n) \in DOMAIN books
        /\ books[KeyOf(n)].title # RowOf(n).title

\* ----------------------------------------------------------------------- C3
\* C3: with a cap K > 0, no failed batch, and at least ceil(K/B)*B accepted
\* records, all with distinct keys, a completed run reports exactly
\* ceil(K/B)*B records inserted and at least as many processed.
C3_CapSemantics ==
    ( /\ pc = "done"
      /\ MAX_RECORDS > 0
      /\ errors = 0
      /\ DistinctKeys
      /\ Len(Accepted) >= CapTarget )
    => /\ records_inserted = CapTarget
       /\ records_processed >= CapTarget

\* ----------------------------------------------------------------------- C4
\* C4: while a run is in progress and when it has completed, records_inserted
\* is the number of rows the run has added to the table; a record whose key
\* is already stored adds no row and is not counted.  Stated for runs with no
\* cap and no failure, where nothing but the conflict policy is at work.
C4_InsertedCountsRowsAdded ==
    ( /\ pc \in {"read", "encode", "write", "final", "final_write", "close", "done"}
      /\ MAX_RECORDS = 0
      /\ faults = 0 )
    => records_inserted = Cardinality(DOMAIN books) - Cardinality(DOMAIN books0)

\* ----------------------------------------------------------------------- C5
\* C5: within one run no record is encoded twice and none is inserted twice:
\* two calls of the same kind never hold the same line of the file.
C5_BatchCycleOnce ==
    \A i, j \in 1..Len(calls) :
        (i < j /\ calls[i].op = calls[j].op)
        => Elems(calls[i].lines) \cap Elems(calls[j].lines) = {}

\* ----------------------------------------------------------------------- C6
\* C6: a completed run with no cap and no failed batch has made, over its N
\* accepted records, exactly ceil(N/B) encode calls and ceil(N/B) inserts,
\* encode then insert for each batch in turn, the i-th pair holding accepted
\* records (i-1)*B+1 .. min(i*B, N) in file order (so sizes B, ..., B and the
\* remainder); and the pending batch always holds the records of its lines.
ExpectedCalls ==
    LET N == Len(Accepted)
    IN  [c \in 1..(2 * CeilDiv(N, BATCH_SIZE)) |->
            LET i == (c + 1) \div 2
            IN  [op |-> IF c % 2 = 1 THEN "encode" ELSE "insert",
                 ok |-> TRUE,
                 lines |-> SubSeq(Accepted, (i - 1) * BATCH_SIZE + 1,
                                  Min2(i * BATCH_SIZE, N))]]

PendingIsItsLines ==
    /\ Len(batch_records) = Len(batch_lines)
    /\ Len(batch_texts) = Len(batch_lines)
    /\ \A i \in 1..Len(batch_lines) :
          /\ batch_records[i].ol_key = KeyOf(batch_lines[i])
          /\ batch_records[i].title = RowOf(batch_lines[i]).title
          /\ batch_texts[i] = RowOf(batch_lines[i]).search_content

C6_BatchPartitioning ==
    /\ PendingIsItsLines
    /\ (pc = "done" /\ MAX_RECORDS = 0 /\ errors = 0) => calls = ExpectedCalls

\* the specification's scenario: 5 accepted records in batches of 2
C6_Witness ==
    /\ pc = "done"
    /\ MAX_RECORDS = 0
    /\ errors = 0
    /\ BATCH_SIZE = 2
    /\ Len(Accepted) = 5
    /\ Len(calls) = 6
    /\ Len(calls[5].lines) = 1

\* ----------------------------------------------------------------------- C7
\* C7: a step in which the encoder fails adds the size of the batch to errors,
\* leaves records_inserted and the table as they are, and drops the batch: a
\* full batch leaves the loop reading the next line with nothing pending, the
\* remainder leaves the run to close; and no line of a batch whose encoding
\* failed is in any later call of the run.
EncodeFailureStep ==
    Called("encode", FALSE) =>
        /\ calls'[Len(calls')].lines = batch_lines
        /\ errors' = errors + Len(batch_records)
        /\ records_inserted' = records_inserted
        /\ books' = books
        /\ pc = "encode" =>
              /\ pc' = "read"
              /\ pos' = pos
              /\ batch_records' = << >>
              /\ batch_texts' = << >>
        /\ pc = "final" => pc' = "close"

NeverRetried ==
    \A i \in Encodes(FALSE) : \A j \in (i + 1)..Len(calls) :
        Elems(calls[i].lines) \cap Elems(calls[j].lines) = {}

C7_EncodeFailure == [][EncodeFailureStep]_vars /\ []NeverRetried

\* a full batch failed to encode and the next batch was inserted
C7_Witness ==
    \E i \in Encodes(FALSE) : \E j \in Inserts(TRUE) :
        /\ i < j
        /\ errors = Len(calls[i].lines)
        /\ records_inserted = Len(calls[j].lines)

\* ----------------------------------------------------------------------- C8
\* C8: a step in which the insert fails adds the size of the batch to errors,
\* leaves records_inserted as it is and adds no row of the batch to the table.
WriteFailureStep ==
    Called("insert", FALSE) =>
        /\ errors' = errors + Len(batch_records)
        /\ records_inserted' = records_inserted
        /\ books' = books

C8_WriteFailureAllOrNothing == [][WriteFailureStep]_vars

\* ----------------------------------------------------------------------- C9
\* What one uninterrupted run without failures leaves on an empty table: of
\* the accepted records it reaches (all of them, or with a cap the first
\* ceil(K/B)*B), the first one of each key.
Reached ==
    IF MAX_RECORDS = 0 THEN Accepted
    ELSE SubSeq(Accepted, 1, Min2(Len(Accepted), CapTarget))

ReferenceBooks ==
    [k \in {KeyOf(n) : n \in Elems(Reached)} |->
        RowOf(Reached[CHOOSE i \in 1..Len(Reached) :
                         /\ KeyOf(Reached[i]) = k
                         /\ \A j \in 1..(i - 1) : KeyOf(Reached[j]) # k])]

\* C9 as stated: whatever happened to the earlier runs, a run that completes
\* without a failed batch leaves the table one uninterrupted run without
\* failures would have left on an empty table.
C9_RecoveryByRerun ==
    (pc = "done" /\ errors = 0) => books = ReferenceBooks

\* C9 as amended: the same, when the earlier runs were only killed (no batch
\* of theirs failed), or when no cap is set and the accepted records have
\* distinct keys; and the run rewrites none of the rows it found.
C9_RecoveryByRerunAmended ==
    (pc = "done" /\ errors = 0) =>
        /\ (faults = 0 \/ (MAX_RECORDS = 0 /\ DistinctKeys)) => books = ReferenceBooks
        /\ \A k \in DOMAIN books0 : k \in DOMAIN books /\ books[k] = books0[k]

\* a run that lost a batch was followed by one that completed and added the
\* missing rows to those already there
C9_Witness ==
    /\ pc = "done"
    /\ errors = 0
    /\ faults > 0
    /\ MAX_RECORDS = 0
    /\ DistinctKeys
    /\ books0 # EmptyDict
    /\ books # books0
    /\ books = ReferenceBooks

\* ---------------------------------------------------------------------- C10
\* C10: for every minimum m (0 and 1 included), a record with a non-empty
\* title and the work type is rejected when it has exactly m - 1 subjects and
\* accepted when it has exactly m subjects.
GateIsWork ==
    /\ "title" \in DOMAIN gate_work /\ gate_work["title"] # << >>
    /\ "type" \in DOMAIN gate_work
    /\ gate_work["type"] \in {PyStr(WORK_TYPE), PyDict([key |-> WORK_TYPE])}
    /\ "subjects" \in DOMAIN gate_work

C10_QualityGateBoundary ==
    (gate_result # "unset" /\ GateIsWork) =>
        /\ Len(gate_work["subjects"]) = MIN_SUBJECTS - 1 => gate_result = "rejected"
        /\ Len(gate_work["subjects"]) = MIN_SUBJECTS => gate_result = "accepted"

\* ---------------------------------------------------------------------- C11
\* C11: a record with a non-empty title and at least MIN_SUBJECTS subjects is
\* accepted if and only if its type is the work marker, as a string or as an
\* object whose key is the marker.
GateTypeIsWork ==
    /\ "type" \in DOMAIN gate_work
    /\ gate_work["type"] \in {PyStr(WORK_TYPE), PyDict([key |-> WORK_TYPE])}

C11_WorkTypeGate ==
    ( /\ gate_result # "unset"
      /\ Get(gate_work, "title", << >>) # << >>
      /\ Len(Get(gate_work, "subjects", << >>)) >= MIN_SUBJECTS )
    => (gate_result = "accepted" <=> GateTypeIsWork)

\* ---------------------------------------------------------------------- C12
\* C12: a step that reads a line of fewer than five fields, or one whose fifth
\* field is invalid JSON, raises the count of unparsed lines by one, leaves
\* the four other counters as they are and goes on reading.
IsUnparsed(line) == line.nparts < DUMP_FIELDS \/ line.json.kind = "invalid"

UnparsedStep ==
    ( /\ pc = "read"
      /\ pos < Len(input)
      /\ pos' = pos + 1
      /\ IsUnparsed(input[pos + 1]) )
    => /\ records_unparsed' = records_unparsed + 1
       /\ UNCHANGED counters
       /\ pc' = "read"

C12_UnparsedAccounting == [][UnparsedStep]_vars

\* ---------------------------------------------------------------------- C13
\* C13: a run with no cap that completes with no failed batch reports as
\* processed the number of lines that parse, as skipped the number of those
\* that fail the filter and, the accepted keys being distinct, as inserted the
\* number that pass it; on a table that was empty these are the rows stored.
ParsedLines == {n \in 1..Len(input) : parse_dump_line(input[n]).tag = "dict"}

C13_EndToEndAccounting ==
    (pc = "done" /\ MAX_RECORDS = 0 /\ errors = 0) =>
        /\ records_processed = Cardinality(ParsedLines)
        /\ records_skipped = Cardinality(ParsedLines \ Elems(Accepted))
        /\ DistinctKeys =>
              /\ records_inserted = Len(Accepted)
              /\ books0 = EmptyDict => Cardinality(DOMAIN books) = records_inserted
        /\ summary = <<[processed |-> records_processed, inserted |-> records_inserted,
                        skipped |-> records_skipped, errors |-> 0]>>

\* the specification's example: a work with 4 subjects and title "T", then a
\* work with 1 subject, with a minimum of 3
C13_Witness ==
    /\ pc = "done"
    /\ MIN_SUBJECTS = 3
    /\ MAX_RECORDS = 0
    /\ errors = 0
    /\ input = <<PlainLine("k2", <<"T">>, 4), PlainLine("k3", <<"T">>, 1)>>
    /\ records_processed = 2
    /\ records_inserted = 1
    /\ records_skipped = 1
    /\ DOMAIN books = {"k2"}

\* ---------------------------------------------------------------------- C14
\* C14: when a startup step has failed (DATABASE_URL not set, dump file
\* missing, model not loaded, database not connected) the process has exited
\* with a nonzero status, and it has read no line, made no encoder call and no
\* insert, and left the table as it found it.
C14_StartupFailureAborts ==
    failed_at # "none" =>
        /\ pc = "exit"
        /\ exit_code.tag = "int" /\ exit_code.val # 0
        /\ pos = 0
        /\ records_processed = 0
        /\ batch_records = << >>
        /\ calls = << >>
        /\ conn # "open"
        /\ books = books0

\* the run that follows a run that stored rows fails to connect
C14_Witness ==
    /\ failed_at = "connect"
    /\ pc = "exit"
    /\ books # EmptyDict
    /\ Len(input) > 0

\* ---------------------------------------------------------------------- C15
\* C15: a process that opened the connection and has ended, by returning
\* from main() or by the exit that follows a failure in the read loop, has
\* closed it; and once the connection is closed the table does not change and no
\* insert is made.
ClosedAtExit ==
    (pc \in {"done", "exit"} /\ failed_at = "none") => conn = "closed"

NoWriteAfterClose ==
    conn = "closed" => books' = books /\ Len(calls') <= Len(calls)

C15_ConnectionClosed == []ClosedAtExit /\ [][NoWriteAfterClose]_vars

\* a run that had stored a row met a line that made the read loop fail
C15_Witness ==
    /\ pc = "exit"
    /\ failed_at = "none"
    /\ exit_code = PyInt(1)
    /\ conn = "closed"
    /\ Inserts(TRUE) # {}

\* ---------------------------------------------------------------------- C16
\* C16: a process that got as far as the read loop and has ended, at the end
\* of the file, at the cap, or by the exit that follows a failure in the read
\* loop, has logged the summary of its counters exactly once.
C16_SummaryOnEveryPath ==
    (pc \in {"done", "exit"} /\ failed_at = "none") => Len(summary) = 1

\* ---------------------------------------------------------------------- C17
\* C17: with a cap K > 0, from the moment records_inserted >= K the run reads
\* no further line and records_processed and records_skipped keep their
\* values; with no cap the run leaves the read loop only at the end of the
\* file.
StopStep ==
    ( /\ MAX_RECORDS > 0
      /\ records_inserted >= MAX_RECORDS
      /\ Running
      /\ pc' # "killed" )
    => /\ pos' = pos
       /\ records_processed' = records_processed
       /\ records_skipped' = records_skipped

NoCapReadsToEnd ==
    (MAX_RECORDS = 0 /\ pc \in {"final", "final_write", "close", "done"})
        => pos = Len(input)

C17_StopOnCap == [][StopStep]_vars /\ []NoCapReadsToEnd

\* a run has returned at the cap with a line unread that it would have accepted
C17_Witness ==
    /\ pc = "done"
    /\ MAX_RECORDS > 0
    /\ records_inserted >= MAX_RECORDS
    /\ pos < Len(input)
    /\ \E n \in (pos + 1)..Len(input) : n \in Elems(Accepted)

\* ---------------------------------------------------------------------- C18
\* C18: the pending texts are as many as the pending records and the i-th
\* text is the search text of the i-th record; the rows handed to an insert are
\* one per pending record, in order, each with the vector of its own search
\* text; so is every row of the table.
PendingRows == DataTuples(batch_records, embeddings)

C18_OrderPreservation ==
    /\ Len(batch_texts) = Len(batch_records)
    /\ \A i \in 1..Len(batch_records) : batch_texts[i] = batch_records[i].search_content
    /\ pc \in {"write", "final_write"} =>
          /\ Len(PendingRows) = Len(batch_records)
          /\ \A i \in 1..Len(PendingRows) :
                /\ PendingRows[i].ol_key = batch_records[i].ol_key
                /\ PendingRows[i].search_content = batch_texts[i]
                /\ PendingRows[i].embedding = Embed(batch_texts[i])
    /\ \A k \in DOMAIN books : books[k].embedding = Embed(books[k].search_content)

\* an insert is about to be made of two records with different search texts
C18_Witness ==
    /\ pc = "write"
    /\ Len(batch_records) >= 2
    /\ batch_texts[1] # batch_texts[2]
    /\ embeddings[1] # embeddings[2]

\* ---------------------------------------------------------------------- C19
\* C19: the text derived from a record is its title, ". ", and its first 20
\* subjects with one space between them, with the white space at both ends
\* removed; every record with the same title and the same first 20 subjects
\* has the same text, whatever subjects follow the 20th.
RECURSIVE JoinedUpTo(_, _)
JoinedUpTo(subjects, n) ==
    IF n = 0 THEN << >>
    ELSE IF n = 1 THEN subjects[1]
    ELSE JoinedUpTo(subjects, n - 1) \o <<" ">> \o subjects[n]

Trimmed(s) ==
    LET inked == {i \in 1..Len(s) : s[i] # " "}
    IN  IF inked = {} THEN << >>
        ELSE SubSeq(s, CHOOSE i \in inked : \A j \in inked : i <= j,
                       CHOOSE i \in inked : \A j \in inked : i >= j)

TitleOf(w) == IF "title" \in DOMAIN w THEN w["title"] ELSE << >>
SubjectsOf(w) == IF "subjects" \in DOMAIN w THEN w["subjects"] ELSE << >>
First20(subjects) == SubSeq(subjects, 1, IF Len(subjects) < 20 THEN Len(subjects) ELSE 20)

ClaimedText(w) ==
    Trimmed(TitleOf(w) \o <<".", " ">>
              \o JoinedUpTo(SubjectsOf(w), Len(First20(SubjectsOf(w)))))

C19_EmbeddingText ==
    unit_result.tag = "text" =>
        /\ unit_result.val = ClaimedText(unit_work)
        /\ \A w \in TextWorks :
              ( /\ TitleOf(w) = TitleOf(unit_work)
                /\ First20(SubjectsOf(w)) = First20(SubjectsOf(unit_work)) )
              => prepare_embedding_text(w) = unit_result.val

\* the text of a record with 22 subjects and a title that begins with a space,
\* where another record differs in the 22nd subject only
C19_Witness ==
    /\ unit_result.tag = "text"
    /\ TitleOf(unit_work) = <<" ", "T">>
    /\ Len(SubjectsOf(unit_work)) = 22
    /\ unit_result.val[1] = "T"
    /\ \E w \in TextWorks :
          /\ w # unit_work
          /\ TitleOf(w) = TitleOf(unit_work)
          /\ Len(SubjectsOf(w)) = 22
          /\ First20(SubjectsOf(w)) = First20(SubjectsOf(unit_work))

\* ---------------------------------------------------------------------- C20
\* C20: the extracted authors are, in the order of the authors entries, the
\* key of every entry that is an object with a nested author object holding a
\* key, or an object with a key of its own, the key taken as it is; every
\* other entry adds nothing.
RECURSIVE ClaimedAuthors(_)
ClaimedAuthors(entries) ==
    IF entries = << >> THEN << >>
    ELSE LET e == entries[1]
             nested == /\ e.tag = "dict"
                       /\ "author" \in DOMAIN e.val
                       /\ e.val["author"].tag = "dict"
                       /\ "key" \in DOMAIN e.val["author"].val
             flat == e.tag = "dict" /\ "key" \in DOMAIN e.val
         IN  ( IF nested THEN <<e.val["author"].val["key"]>>
               ELSE IF flat THEN <<e.val["key"]>>
               ELSE << >> ) \o ClaimedAuthors(Tail(entries))

C20_AuthorExtraction ==
    unit_result.tag = "authors" =>
        unit_result.val = ClaimedAuthors(IF "authors" \in DOMAIN unit_work
                                           THEN unit_work["authors"] ELSE << >>)

\* ---------------------------------------------------------------------- C21
\* C21: the year extracted from a record is the number of the first four
\* characters of first_publish_date.value when those are all digits; if not,
\* the number of the first four characters of first_publish_year when that
\* parses; if not, absent.  A dated value that is not usable falls back to the
\* plain year field.
FirstFour(v) == SubSeq(StrOf(v), 1, IF Len(StrOf(v)) < 4 THEN Len(StrOf(v)) ELSE 4)

DatedValue(w) ==
    IF /\ "first_publish_date" \in DOMAIN w
       /\ w["first_publish_date"].tag = "dict"
       /\ "value" \in DOMAIN w["first_publish_date"].val
      THEN w["first_publish_date"].val["value"]
      ELSE PyNone

PlainYear(w) ==
    IF "first_publish_year" \in DOMAIN w THEN w["first_publish_year"] ELSE PyNone

ClaimedYear(w) ==
    IF DatedValue(w).tag \in {"str", "int"} /\ IsDigit(FirstFour(DatedValue(w)))
      THEN PyInt(IntOfDigits(FirstFour(DatedValue(w))))
    ELSE IF PlainYear(w).tag \in {"str", "int"}
      THEN ParseInt(FirstFour(PlainYear(w)))
    ELSE PyNone

SameYear(a, b) == a.tag = b.tag /\ (a.tag = "int" => a.val = b.val)

C21_YearExtraction ==
    unit_result.tag = "year" => SameYear(unit_result.val, ClaimedYear(unit_work))

\* ---------------------------------------------------------------------- C27
\* C27: the record parsed from a line has the payload's own type when the
\* payload has one and the line's first field if not, the payload's own key
\* when it has one and the line's second field if not, and every other field
\* of the payload as it is; the key is the one the record is stored under.
BackfilledFrom(line, rec) ==
    LET payload == line.json.work
    IN  /\ DOMAIN rec = DOMAIN payload \cup {"type", "key"}
        /\ \A f \in DOMAIN payload \ {"type", "key"} : rec[f] = payload[f]
        /\ IF "type" \in DOMAIN payload
             THEN rec["type"].tag = payload["type"].tag /\ rec["type"] = payload["type"]
             ELSE rec["type"].tag = "str" /\ rec["type"].val = line.type
        /\ rec["key"] = (IF "key" \in DOMAIN payload THEN payload["key"] ELSE line.key)
        /\ MakeRecord(rec).ol_key = rec["key"]

C27_TypeKeyBackfill ==
    (unit_result.tag = "parsed" /\ unit_result.val.tag = "dict")
        => BackfilledFrom(unit_work, unit_result.val.val)

\* a line was parsed whose payload has a key and a type that differ from the
\* line's fields
C27_Witness ==
    /\ unit_result.tag = "parsed"
    /\ unit_result.val.tag = "dict"
    /\ unit_work.type = WORK_TYPE
    /\ "type" \in DOMAIN unit_work.json.work
    /\ unit_work.json.work["type"].tag = "str"
    /\ unit_work.json.work["type"].val = "/type/edition"
    /\ "key" \in DOMAIN unit_work.json.work
    /\ unit_work.json.work["key"] # unit_work.key
    /\ unit_result.val.val["key"] = "k9"

\* ---------------------------------------------------------------------- C22
\* C22: through any sequence of runs, every row of the table is stored under
\* its own natural key, so no two rows share one, and the table only grows:
\* no step of the pipeline removes a row or changes a stored row.
RowsKeyed == \A k \in DOMAIN books : books[k].ol_key = k

AppendOnly == \A k \in DOMAIN books : k \in DOMAIN books' /\ books'[k] = books[k]

C22_StoreInvariant == []RowsKeyed /\ [][AppendOnly]_vars

\* a later run has written to a table that held rows and has added rows to it
C22_Witness ==
    /\ run >= 2
    /\ pc = "done"
    /\ Inserts(TRUE) # {}
    /\ books0 # EmptyDict
    /\ Cardinality(DOMAIN books) > Cardinality(DOMAIN books0)

\* ---------------------------------------------------------------------- C23
\* C23: every record in the pending batch and every record handed to the
\* encoder or to the writer comes from a line of the file that parsed to a
\* record with a non-empty title, at least MIN_SUBJECTS subjects and the work
\* type, and every row a step adds to the table is the row of such a line of
\* the batch in hand; no other line produces a row.
IsValidated(n) ==
    LET parsed == parse_dump_line(input[n])
    IN  /\ parsed.tag = "dict"
        /\ "title" \in DOMAIN parsed.val
        /\ parsed.val["title"] # << >>
        /\ "subjects" \in DOMAIN parsed.val
        /\ Len(parsed.val["subjects"]) >= MIN_SUBJECTS
        /\ "type" \in DOMAIN parsed.val
        /\ \/ /\ parsed.val["type"].tag = "str"
              /\ parsed.val["type"].val = WORK_TYPE
           \/ /\ parsed.val["type"].tag = "dict"
              /\ "key" \in DOMAIN parsed.val["type"].val
              /\ parsed.val["type"].val["key"] = WORK_TYPE

HandedLines ==
    Elems(batch_lines) \cup UNION {Elems(calls[c].lines) : c \in 1..Len(calls)}

HandedValidated ==
    /\ \A n \in HandedLines : IsValidated(n)
    /\ Len(batch_records) = Len(batch_lines)
    /\ \A i \in 1..Len(batch_lines) :
          batch_records[i] = MakeRecord(parse_dump_line(input[batch_lines[i]]).val)

AddsValidatedRows ==
    \A k \in DOMAIN books' \ DOMAIN books :
        \E i \in 1..Len(batch_lines) :
            IsValidated(batch_lines[i]) /\ books'[k] = RowOf(batch_lines[i])

C23_OnlyValidatedPersisted == []HandedValidated /\ [][AddsValidatedRows]_vars

\* the file with every kind of type has been read to its end: of its seven
\* lines two are stored, four were skipped by the filter and one did not parse
C23_Witness ==
    /\ pc = "done"
    /\ input = Typed
    /\ faults = 0
    /\ records_skipped = 4
    /\ DOMAIN books = {"k3", "k6"}

\* ---------------------------------------------------------------------- C24
\* C24: whenever the read loop is about to take its next line,
\* records_processed = records_skipped + records_inserted + errors + the
\* number of records in the pending batch; and when a run has returned, at
\* the end of the file or at the cap, records_processed = records_skipped +
\* records_inserted + errors.
C24_CounterConservation ==
    /\ pc = "read" =>
          records_processed
              = records_skipped + records_inserted + errors + Len(batch_records)
    /\ pc = "done" =>
          records_processed = records_skipped + records_inserted + errors

\* ---------------------------------------------------------------------- C25
\* C25: no line of the file ends the run: a process that has left by
\* sys.exit(1) left in one of the startup checks, never in the read loop.
C25_NoLineAbortsRun == pc = "exit" => failed_at \in StartupFailures

\* ---------------------------------------------------------------------- C26
\* C26: the pending batch, its texts and its embeddings never hold more than
\* BATCH_SIZE records, the loop never takes a line with a full batch, and a
\* full-batch cycle after which the loop goes on, whether it succeeded or
\* failed, leaves the pending batch empty.
BatchBounded ==
    /\ Len(batch_records) <= BATCH_SIZE
    /\ Len(batch_texts) <= BATCH_SIZE
    /\ Len(embeddings) <= BATCH_SIZE
    /\ pc = "read" => Len(batch_records) < BATCH_SIZE

EmptyAfterCycle ==
    (pc \in {"encode", "write"} /\ pc' = "read")
        => batch_records' = << >> /\ batch_texts' = << >> /\ embeddings' = << >>

C26_BoundedPendingBatch == []BatchBounded /\ [][EmptyAfterCycle]_vars

\* after a written batch and a failed one the loop is back at an empty batch
\* with lines still to read, in a file longer than two batches
C26_Witness ==
    /\ pc = "read"
    /\ batch_records = << >>
    /\ pos < Len(input)
    /\ Len(input) > 2 * BATCH_SIZE
    /\ Inserts(TRUE) # {}
    /\ Encodes(FALSE) \cup Inserts(FALSE) # {}

\* ---------------------------------------------------------------------- C28
\* C28: every step in which records_inserted reaches or passes a multiple of
\* the milestone interval logs one milestone line, whatever the batch size,
\* in the read loop and in the final remainder batch.
MilestoneStep ==
    (records_inserted' \div MilestoneEvery > records_inserted \div MilestoneEvery)
        => Len(milestones') = Len(milestones) + 1

C28_Milestones == [][MilestoneStep]_vars

\* ---------------------------------------------------------------------- C29
\* a step that ends a batch cycle: the encoder has failed, or the writer has
\* returned or failed
CycleEnds == Called("encode", FALSE) \/ Called("insert", TRUE) \/ Called("insert", FALSE)

PausesOnce == pauses' = pauses + (IF BATCH_DELAY > 0 THEN 1 ELSE 0)

\* C29 as stated: every batch cycle, of a full batch, of the batch that
\* reaches the cap or of the final remainder, successful or failed, is followed
\* by exactly one pause when BATCH_DELAY > 0 and by none when it is 0.
ThrottleEveryCycle == CycleEnds => PausesOnce

C29_ThrottleEveryCycle == [][ThrottleEveryCycle]_vars

\* C29, amended: exactly one pause (none when BATCH_DELAY is 0) follows every
\* full-batch cycle after which the read loop goes on, successful or failed;
\* none follows the cycle that reaches the cap or the final remainder cycle;
\* and a running process pauses nowhere else.
ThrottleBetweenBatches ==
    /\ (CycleEnds /\ pc' = "read") => PausesOnce
    /\ (CycleEnds /\ pc' # "read") => pauses' = pauses
    /\ (~CycleEnds /\ pc' \notin {"killed", "startup"}) => pauses' = pauses

C29_ThrottleBetweenBatches == [][ThrottleBetweenBatches]_vars

\* a run with a delay has returned after two pauses, one of them after a
\* failed batch, and has made more batch cycles than pauses
C29_Witness ==
    /\ pc = "done"
    /\ BATCH_DELAY > 0
    /\ pauses >= 2
    /\ Encodes(FALSE) \cup Inserts(FALSE) # {}
    /\ pauses < Cardinality(Encodes(FALSE) \cup Inserts(TRUE) \cup Inserts(FALSE))

\* ---------------------------------------------------------------------- C30
\* C30: in both caches a lookup whose request failed with an HTTP status
\* other than 404, with a timeout or with any other exception stores nothing
\* for its key, so the next lookup of the key makes a new request; and a key
\* that is stored is served as stored with no request.
TransientOutcomes == {"http_500", "timeout", "exception"}

SameValue(a, b) == a.tag = b.tag /\ (a.tag = "str" => a.val = b.val)

CacheOf(name, authors, covers) == IF name = "author" THEN authors ELSE covers

TransientNotCached ==
    lookups' = lookups + 1 =>
        LET before == CacheOf(fetched'.cache, author_cache, cover_cache)
            after == CacheOf(fetched'.cache, author_cache', cover_cache')
        IN  /\ fetched'.outcome \in TransientOutcomes => fetched'.key \notin DOMAIN after
            /\ fetched'.key \in DOMAIN before =>
                  /\ ~fetched'.requested
                  /\ SameValue(fetched'.result, before[fetched'.key])
                  /\ after = before

C30_TransientErrorsNotCached == [][TransientNotCached]_vars

====
